---- MODULE Spec2Model ----
(***************************************************************************)
(* Weihnachtskalender: the fuzzy answer matcher of RiddleModal.tsx         *)
(* (getLevenshteinDistance, isFuzzyMatch, handleSubmit).                   *)
(*                                                                         *)
(* A JavaScript string is modelled as a sequence of one-character strings  *)
(* (its UTF-16 code units); "" is the empty sequence <<>>.                 *)
(***************************************************************************)
EXTENDS Integers, Sequences, FiniteSets, TLC

VARIABLES
    argA, argB,     \* the two arguments handed to a function of the matcher
    argC,           \* a third string, for relations between three strings
    op,             \* the function that was applied last ("none" before any call)
    ret,            \* what it returned
    riddle,         \* RiddleModal's prop riddle
    userAnswer,     \* RiddleModal state: the text field / selected radio value
    showError,      \* RiddleModal state
    showSuccess,    \* RiddleModal state
    graded,         \* handleSubmit has graded a submission
    submitted,      \* the userAnswer handleSubmit graded last
    isCorrect,      \* handleSubmit's local isCorrect (let isCorrect = false)
    fuzzyCalls,     \* the candidates isFuzzyMatch was invoked with in the last submission
    hideErrorTimers,\* pending setTimeout(() => setShowError(false), 2000)
    onSolvedTimer,  \* pending setTimeout(() => onSolved(), 2000): the days selected
                    \* in the renders whose onSolved they will call
    onSolvedCalls,  \* how often a stand-alone modal's prop onSolved has been called
    hintClicks,         \* RiddleModal state
    forceShowSolution,  \* RiddleModal state
    clicksSinceOpen,    \* hint clicks since the modal was opened for its day
    currentDate,        \* App state: [december, day]
    calendarState,      \* App state: day -> door
    selectedDay,        \* App state; NoDay is null
    loadingRiddle,      \* App state
    pendingFetches,     \* day -> number of generateRiddleForDay(day) awaited
    closeTimers,        \* pending setTimeout(close, 500): the days they were set for
    closedByTimer,      \* the last such close that ran: the day it was set for, and
                        \* the day that was selected when it ran
    localStorage        \* the item stored under STORAGE_KEY

fnVars    == <<argA, argB, argC, op, ret>>
modalVars == <<riddle, userAnswer, showError, showSuccess, graded, submitted,
               isCorrect, fuzzyCalls, hideErrorTimers, onSolvedTimer, onSolvedCalls>>
appVars   == <<hintClicks, forceShowSolution, clicksSinceOpen, currentDate,
               calendarState, selectedDay, loadingRiddle, pendingFetches, closeTimers,
               closedByTimer, localStorage>>
vars      == <<argA, argB, argC, op, ret, riddle, userAnswer, showError, showSuccess,
               graded, submitted, isCorrect, fuzzyCalls, hideErrorTimers,
               onSolvedTimer, onSolvedCalls, hintClicks, forceShowSolution,
               clicksSinceOpen, currentDate, calendarState, selectedDay,
               loadingRiddle, pendingFetches, closeTimers, closedByTimer,
               localStorage>>

(***************************************************************************)
(* Characters                                                              *)
(***************************************************************************)

\* the character class of the regular expression /[.,!?:;'"-]/g
Punctuation == {".", ",", "!", "?", ":", ";", "'", "\"", "-"}

\* characters String.prototype.trim strips (the ones the model's inputs use)
WhiteSpace == {" ", "\t"}

\* String.prototype.toLowerCase on one character
LowerChar(c) ==
    CASE c = "A" -> "a"
      [] c = "B" -> "b"
      [] OTHER   -> c

UpperCase == {"A", "B"}

\* all sequences over S of length at most n
StringsUpTo(S, n) == UNION {[1..k -> S] : k \in 0..n}

Max(x, y) == IF x >= y THEN x ELSE y
Min(x, y) == IF x <= y THEN x ELSE y

(***************************************************************************)
(* isFuzzyMatch.normalize: s.trim().toLowerCase().replace(/[.,!?:;'"-]/g,'')*)
(***************************************************************************)

RECURSIVE trimStart(_)
trimStart(s) ==
    IF s # <<>> /\ Head(s) \in WhiteSpace THEN trimStart(Tail(s)) ELSE s

RECURSIVE trimEnd(_)
trimEnd(s) ==
    IF s # <<>> /\ s[Len(s)] \in WhiteSpace
    THEN trimEnd(SubSeq(s, 1, Len(s) - 1))
    ELSE s

trim(s) == trimEnd(trimStart(s))

toLowerCase(s) == [i \in 1..Len(s) |-> LowerChar(s[i])]

IsNotPunctuation(c) == c \notin Punctuation

removePunctuation(s) == SelectSeq(s, IsNotPunctuation)

normalize(s) == removePunctuation(toLowerCase(trim(s)))

(***************************************************************************)
(* getLevenshteinDistance.  matrix[i][j] of the code is matrix[i+1][j+1]   *)
(* here (sequences are 1-based).                                           *)
(***************************************************************************)

\* initMatrix with the first column left at 0 (matrix[i] = [0])
initMatrixZeroColumn(a, b) ==
    [i \in 1..(Len(b) + 1) |->
        IF i = 1 THEN [j \in 1..(Len(a) + 1) |-> j - 1] ELSE <<0>>]

\* lines 20-28: first column matrix[i] = [i], then first row matrix[0][j] = j
initMatrix(a, b) ==
    [i \in 1..(Len(b) + 1) |->
        IF i = 1 THEN [j \in 1..(Len(a) + 1) |-> j - 1] ELSE <<i - 1>>]

\* cell without the substitution case
cellNoSubstitution(a, b, above, row, i, j) ==
    IF b[i] = a[j]
    THEN above[j]
    ELSE Min(row[j] + 1, above[j + 1] + 1)

\* lines 32-42: the value stored in matrix[i][j], from the row above and the
\* cells of row i filled so far
cell(a, b, above, row, i, j) ==
    IF b[i] = a[j]
    THEN above[j]
    ELSE Min(above[j] + 1, Min(row[j] + 1, above[j + 1] + 1))

\* the inner loop over j (line 31) for one row i
RECURSIVE fillRow(_, _, _, _, _)
fillRow(a, b, above, row, i) ==
    IF Len(row) = Len(a) + 1
    THEN row
    ELSE fillRow(a, b, above, Append(row, cell(a, b, above, row, i, Len(row))), i)

\* the outer loop over i (line 30)
RECURSIVE fillMatrix(_, _, _, _)
fillMatrix(a, b, matrix, i) ==
    IF i > Len(b)
    THEN matrix
    ELSE fillMatrix(a, b,
                    [matrix EXCEPT ![i + 1] = fillRow(a, b, matrix[i], matrix[i + 1], i)],
                    i + 1)

getLevenshteinDistance(a, b) ==
    IF a = <<>> THEN Len(b)
    ELSE IF b = <<>> THEN Len(a)
    ELSE fillMatrix(a, b, initMatrix(a, b), 1)[Len(b) + 1][Len(a) + 1]

(***************************************************************************)
(* isFuzzyMatch                                                            *)
(***************************************************************************)

\* withinTolerance with the middle tier reaching up to 8 characters
withinToleranceLateTier(len, dist) ==
    IF len <= 3 THEN dist = 0
    ELSE IF len <= 8 THEN dist <= 1
    ELSE dist <= 2

\* withinTolerance with the exact tier reaching up to 4 characters
withinToleranceExactUpTo4(len, dist) ==
    IF len <= 4 THEN dist = 0
    ELSE IF len <= 7 THEN dist <= 1
    ELSE dist <= 2

\* lines 66-68: the tolerance tiers
withinTolerance(len, dist) ==
    IF len <= 3 THEN dist = 0
    ELSE IF len <= 7 THEN dist <= 1
    ELSE dist <= 2

\* isFuzzyMatch comparing the raw strings, the normalization forgotten
isFuzzyMatchRaw(user, correct) ==
    IF user = <<>> \/ correct = <<>> THEN FALSE
    ELSE IF user = correct THEN TRUE
    ELSE withinTolerance(Max(Len(user), Len(correct)),
                         getLevenshteinDistance(user, correct))

isFuzzyMatch(user, correct) ==
    IF user = <<>> \/ correct = <<>> THEN FALSE
    ELSE LET a == normalize(user)
             b == normalize(correct)
         IN  IF a = b THEN TRUE
             ELSE withinTolerance(Max(Len(a), Len(b)), getLevenshteinDistance(a, b))

(***************************************************************************)
(* The Levenshtein edit distance as the textbook recurrence                *)
(*   D[i][0] = i,  D[0][j] = j,                                            *)
(*   D[i][j] = min(D[i-1][j] + 1, D[i][j-1] + 1, D[i-1][j-1] + [a_i # b_j])*)
(* with the rows running over a; what the code's result is compared to.    *)
(***************************************************************************)

RECURSIVE refRow(_, _, _, _, _)
refRow(a, b, above, row, i) ==
    IF Len(row) = Len(b) + 1
    THEN row
    ELSE LET j    == Len(row)
             cost == IF a[i] = b[j] THEN 0 ELSE 1
             d    == Min(Min(above[j + 1] + 1, row[j] + 1), above[j] + cost)
         IN  refRow(a, b, above, Append(row, d), i)

RECURSIVE refRows(_, _, _, _)
refRows(a, b, above, i) ==
    IF i > Len(a)
    THEN above
    ELSE refRows(a, b, refRow(a, b, above, <<i>>, i), i + 1)

EditDistance(a, b) ==
    refRows(a, b, [j \in 1..(Len(b) + 1) |-> j - 1], 1)[Len(b) + 1]

(***************************************************************************)
(* Applying the functions of the matcher to drawn inputs                   *)
(***************************************************************************)

NoRiddle == [type |-> "null", correctAnswer |-> <<>>,
             acceptedAnswers |-> [kind |-> "undefined", items |-> <<>>],
             options |-> <<>>]

\* selectedDay === null
NoDay == 0

\* DoorGrid: Array.from({ length: 19 }, (_, i) => i + 6) is 6..24; the model
\* keeps the doors FirstDoor..LastDoor
FirstDoor == 6
LastDoor == 7

Days == FirstDoor..LastDoor

\* calendarState[day] undefined, and a door as an object; a flag that is
\* undefined is FALSE, a riddle that is undefined is NoRiddle
AbsentDoor ==
    [present |-> FALSE, isOpen |-> FALSE, isSolved |-> FALSE, riddle |-> NoRiddle]

EmptyCalendar == [d \in Days |-> AbsentDoor]

\* no setTimeout(close, 500) has run since the last door was opened
NoClose == [timer |-> NoDay, closed |-> NoDay]

\* the App as it is while only a function or a stand-alone modal is looked at
AppUnused ==
    /\ hintClicks = 0
    /\ forceShowSolution = FALSE
    /\ clicksSinceOpen = 0
    /\ currentDate = [december |-> FALSE, day |-> FirstDoor]
    /\ calendarState = EmptyCalendar
    /\ selectedDay = FirstDoor
    /\ loadingRiddle = FALSE
    /\ pendingFetches = [d \in Days |-> 0]
    /\ closeTimers = {}
    /\ closedByTimer = NoClose
    /\ localStorage = [item |-> FALSE, value |-> EmptyCalendar]

ModalUnused ==
    /\ riddle = NoRiddle
    /\ userAnswer = <<>>
    /\ showError = FALSE
    /\ showSuccess = FALSE
    /\ graded = FALSE
    /\ submitted = <<>>
    /\ isCorrect = FALSE
    /\ fuzzyCalls = <<>>
    /\ hideErrorTimers = 0
    /\ onSolvedTimer = {}
    /\ onSolvedCalls = 0
    /\ AppUnused

CallNormalize ==
    /\ op = "none"
    /\ op' = "normalize"
    /\ ret' = normalize(argA)
    /\ UNCHANGED <<argA, argB, argC>>
    /\ UNCHANGED modalVars
    /\ UNCHANGED appVars

CallLevenshtein ==
    /\ op = "none"
    /\ op' = "getLevenshteinDistance"
    /\ ret' = getLevenshteinDistance(argA, argB)
    /\ UNCHANGED <<argA, argB, argC>>
    /\ UNCHANGED modalVars
    /\ UNCHANGED appVars

CallIsFuzzyMatch ==
    /\ op = "none"
    /\ op' = "isFuzzyMatch"
    /\ ret' = isFuzzyMatch(argA, argB)
    /\ UNCHANGED <<argA, argB, argC>>
    /\ UNCHANGED modalVars
    /\ UNCHANGED appVars

\* ---- normalize on one string over a rich alphabet ------------------------

MaxNormLen == 3

NormAlphabet == {"a", "B", "#"} \cup WhiteSpace \cup Punctuation

InitNorm ==
    /\ argA \in StringsUpTo(NormAlphabet, MaxNormLen)
    /\ argB = <<>>
    /\ argC = <<>>
    /\ op = "none"
    /\ ret = "none"
    /\ ModalUnused

NextNorm == CallNormalize

SpecNorm == InitNorm /\ [][NextNorm]_vars

\* ---- isFuzzyMatch on two raw strings with case, whitespace, punctuation --

MaxMatchLen == 3

MatchAlphabet == {"a", "B", " ", "."}

\* two spellings of one stem (equal once normalized) that lift the short
\* strings into the upper tiers, and the empty stem
MatchStems ==
    { <<<<>>, <<>>>>,
      <<<<"B", "a", "B", "a", "a">>, <<"b", "a", ".", "B", "a", "a">>>> }

InitMatch ==
    /\ \E st \in MatchStems :
         \E s, t \in StringsUpTo(MatchAlphabet, MaxMatchLen) :
            /\ argA = st[1] \o s
            /\ argB = st[2] \o t
    /\ argC = <<>>
    /\ op = "none"
    /\ ret = "none"
    /\ ModalUnused

NextMatch == CallIsFuzzyMatch

SpecMatch == InitMatch /\ [][NextMatch]_vars

\* ---- distance and tolerance on two strings of every length tier ----------

MaxPairLen == 3

PairAlphabet == {"a", "b", "B"}

\* a common stem that lifts the short strings into the two upper tiers
Stem == <<"a", "B", "b", "a", "B">>

PairStrings ==
    LET short == StringsUpTo(PairAlphabet, MaxPairLen)
    IN  short \cup {Stem \o s : s \in short}

InitPair ==
    /\ argA \in PairStrings
    /\ argB \in PairStrings
    /\ argC = <<>>
    /\ op = "none"
    /\ ret = "none"
    /\ ModalUnused

NextPair == CallLevenshtein \/ CallIsFuzzyMatch

SpecPair == InitPair /\ [][NextPair]_vars

\* ---- isFuzzyMatch on an answer and the answer with substituted characters -

TierLengths == {3, 4, 8}

SubstitutionCounts == 1..3

\* the characters of the answers, and the ones a substitution may put in
TierAlphabet == {"a", "b"}
SubstituteAlphabet == {"a", "b", "c"}

\* the positions at which s and t (of equal length) differ
Differing(s, t) == {i \in 1..Len(s) : s[i] # t[i]}

Range(s) == {s[i] : i \in 1..Len(s)}

InitTier ==
    /\ \E n \in TierLengths :
         /\ argB \in [1..n -> TierAlphabet]
         /\ argA \in [1..n -> SubstituteAlphabet]
    /\ Cardinality(Differing(argA, argB)) \in SubstitutionCounts
    /\ argC = <<>>
    /\ op = "none"
    /\ ret = "none"
    /\ ModalUnused

NextTier == CallIsFuzzyMatch

SpecTier == InitTier /\ [][NextTier]_vars

\* ---- getLevenshteinDistance on the three pairs of three strings -----------

MaxTripleLen == 3

TripleAlphabet == {"a", "b"}

InitTriple ==
    /\ argA \in StringsUpTo(TripleAlphabet, MaxTripleLen)
    /\ argB \in StringsUpTo(TripleAlphabet, MaxTripleLen)
    /\ argC \in StringsUpTo(TripleAlphabet, MaxTripleLen)
    /\ op = "none"
    /\ ret = "none"
    /\ ModalUnused

\* getLevenshteinDistance applied to (a, b), (b, c) and (a, c)
CallLevenshteinThrice ==
    /\ op = "none"
    /\ op' = "distances"
    /\ ret' = [ab |-> getLevenshteinDistance(argA, argB),
               bc |-> getLevenshteinDistance(argB, argC),
               ac |-> getLevenshteinDistance(argA, argC)]
    /\ UNCHANGED <<argA, argB, argC>>
    /\ UNCHANGED modalVars
    /\ UNCHANGED appVars

NextTriple == CallLevenshteinThrice

SpecTriple == InitTriple /\ [][NextTriple]_vars

(***************************************************************************)
(* RiddleModal: grading a submission (handleSubmit) and its timers         *)
(***************************************************************************)

\* riddle.acceptedAnswers as JavaScript sees it: absent, null, a value that
\* is not an array (a string), or an array of strings
Undefined    == [kind |-> "undefined", items |-> <<>>]
Null         == [kind |-> "null", items |-> <<>>]
NotAnArray   == [kind |-> "string", items |-> <<>>]
ArrayOf(xs)  == [kind |-> "array", items |-> xs]

\* Array.prototype.some(ans => isFuzzyMatch(user, ans)): the number of elements
\* the callback ran on (it stops at the first match) and whether one matched
RECURSIVE someMatch(_, _, _)
someMatch(user, items, k) ==
    IF k > Len(items) THEN [found |-> FALSE, tried |-> Len(items)]
    ELSE IF isFuzzyMatch(user, items[k]) THEN [found |-> TRUE, tried |-> k]
    ELSE someMatch(user, items, k + 1)

\* grade with every alternate required to match (every for some)
gradeEveryAlternate(r, user) ==
    IF r.type = "choice"
    THEN [isCorrect |-> (user = r.correctAnswer), calls |-> <<>>]
    ELSE IF isFuzzyMatch(user, r.correctAnswer)
    THEN [isCorrect |-> TRUE, calls |-> <<r.correctAnswer>>]
    ELSE IF r.acceptedAnswers.kind = "array" /\ Len(r.acceptedAnswers.items) > 0
    THEN [isCorrect |-> \A k \in 1..Len(r.acceptedAnswers.items) :
                            isFuzzyMatch(user, r.acceptedAnswers.items[k]),
          calls |-> <<r.correctAnswer>> \o r.acceptedAnswers.items]
    ELSE [isCorrect |-> FALSE, calls |-> <<r.correctAnswer>>]

\* grade with a choice riddle sent through the fuzzy path as well
gradeChoiceFuzzy(r, user) ==
    IF isFuzzyMatch(user, r.correctAnswer)
    THEN [isCorrect |-> TRUE, calls |-> <<r.correctAnswer>>]
    ELSE IF r.acceptedAnswers.kind = "array" /\ Len(r.acceptedAnswers.items) > 0
    THEN LET some == someMatch(user, r.acceptedAnswers.items, 1)
         IN  [isCorrect |-> some.found,
              calls |-> <<r.correctAnswer>> \o SubSeq(r.acceptedAnswers.items, 1, some.tried)]
    ELSE [isCorrect |-> FALSE, calls |-> <<r.correctAnswer>>]

\* lines 101-113: the verdict, and the candidates isFuzzyMatch ran on
grade(r, user) ==
    IF r.type = "choice"
    THEN [isCorrect |-> (user = r.correctAnswer), calls |-> <<>>]
    ELSE IF isFuzzyMatch(user, r.correctAnswer)
    THEN [isCorrect |-> TRUE, calls |-> <<r.correctAnswer>>]
    ELSE IF r.acceptedAnswers.kind = "array" /\ Len(r.acceptedAnswers.items) > 0
    THEN LET some == someMatch(user, r.acceptedAnswers.items, 1)
         IN  [isCorrect |-> some.found,
              calls |-> <<r.correctAnswer>> \o SubSeq(r.acceptedAnswers.items, 1, some.tried)]
    ELSE [isCorrect |-> FALSE, calls |-> <<r.correctAnswer>>]

\* what RiddleModal renders (lines 126, 153-293), "unmounted" while App does
\* not render it (selectedDay && ...)
ModalView ==
    IF selectedDay = NoDay THEN "unmounted"
    ELSE IF riddle = NoRiddle /\ ~loadingRiddle THEN "nothing"
    ELSE IF loadingRiddle THEN "spinner"
    ELSE IF riddle # NoRiddle
         THEN IF showSuccess THEN "success"
              ELSE IF forceShowSolution THEN "solution"
              ELSE "form"
    ELSE "error"

\* the answer form is rendered (lines 153-214)
FormShown == ModalView = "form"

MaxTypedLen == 2
MaxAlternates == 2
MaxPendingTimers == 2

TypedAlphabet == {"A", "b"}
AnswerWords == {<<"a">>, <<"b">>}
AlternateWords == {<<>>, <<"a">>, <<"b">>}
ChoiceOptions == {<<>>, <<<<"a">>, <<"b">>>>}

Riddles ==
    { [type |-> ty, correctAnswer |-> c, acceptedAnswers |-> acc, options |-> opts] :
        ty \in {"text", "choice"},
        c \in AnswerWords,
        acc \in {Undefined, Null, NotAnArray}
                  \cup {ArrayOf(xs) : xs \in StringsUpTo(AlternateWords, MaxAlternates)},
        opts \in ChoiceOptions }

\* what the rendered input can put into userAnswer (lines 216-250): one of the
\* radio options of a choice riddle that has some, any text otherwise
Typeable ==
    IF riddle.type = "choice" /\ Len(riddle.options) > 0
    THEN {riddle.options[k] : k \in 1..Len(riddle.options)}
    ELSE StringsUpTo(TypedAlphabet, MaxTypedLen)

InitGrade ==
    /\ argA = <<>>
    /\ argB = <<>>
    /\ argC = <<>>
    /\ op = "none"
    /\ ret = "none"
    /\ riddle \in {r \in Riddles : r.type = "choice" \/ r.options = <<>>}
    /\ userAnswer = <<>>
    /\ showError = FALSE
    /\ showSuccess = FALSE
    /\ graded = FALSE
    /\ submitted = <<>>
    /\ isCorrect = FALSE
    /\ fuzzyCalls = <<>>
    /\ hideErrorTimers = 0
    /\ onSolvedTimer = {}
    /\ onSolvedCalls = 0
    /\ AppUnused

\* onChange={(e) => setUserAnswer(e.target.value)}
setUserAnswer ==
    /\ FormShown
    /\ \E v \in Typeable : userAnswer' = v
    /\ UNCHANGED <<riddle, showError, showSuccess, graded, submitted, isCorrect, fuzzyCalls,
                   hideErrorTimers, onSolvedTimer, onSolvedCalls>>
    /\ UNCHANGED fnVars
    /\ UNCHANGED appVars

\* lines 97-124
handleSubmit ==
    /\ FormShown
    /\ LET g == grade(riddle, userAnswer)
       IN  /\ g.isCorrect \/ hideErrorTimers < MaxPendingTimers
           /\ graded' = TRUE
           /\ submitted' = userAnswer
           /\ isCorrect' = g.isCorrect
           /\ fuzzyCalls' = g.calls
           /\ IF g.isCorrect
              THEN /\ selectedDay \notin onSolvedTimer
                   /\ showSuccess' = TRUE
                   /\ onSolvedTimer' = onSolvedTimer \cup {selectedDay}
                   /\ UNCHANGED <<showError, hideErrorTimers>>
              ELSE /\ showError' = TRUE
                   /\ hideErrorTimers' = hideErrorTimers + 1
                   /\ UNCHANGED <<showSuccess, onSolvedTimer>>
    /\ UNCHANGED <<riddle, userAnswer, onSolvedCalls>>
    /\ UNCHANGED fnVars
    /\ UNCHANGED appVars

\* line 122: a pending () => setShowError(false) runs
hideErrorTimeout ==
    /\ hideErrorTimers > 0
    /\ hideErrorTimers' = hideErrorTimers - 1
    /\ showError' = FALSE
    /\ UNCHANGED <<riddle, userAnswer, showSuccess, graded, submitted, isCorrect,
                   fuzzyCalls, onSolvedTimer, onSolvedCalls>>
    /\ UNCHANGED fnVars
    /\ UNCHANGED appVars

\* lines 117-119: the pending () => onSolved() runs, in a stand-alone modal
onSolvedTimeout ==
    /\ \E d \in onSolvedTimer : onSolvedTimer' = onSolvedTimer \ {d}
    /\ onSolvedCalls' = onSolvedCalls + 1
    /\ UNCHANGED <<riddle, userAnswer, showError, showSuccess, graded, submitted,
                   isCorrect, fuzzyCalls, hideErrorTimers>>
    /\ UNCHANGED fnVars
    /\ UNCHANGED appVars

NextGrade ==
    \/ setUserAnswer
    \/ handleSubmit
    \/ hideErrorTimeout
    \/ onSolvedTimeout

SpecGrade == InitGrade /\ [][NextGrade]_vars

(***************************************************************************)
(* The App: DoorGrid, the riddle fetch, the modal inside App, progress in  *)
(* localStorage (App.tsx, DoorGrid.tsx, RiddleModal.tsx)                   *)
(***************************************************************************)

\* handleHintClick: if (newCount >= 4) setForceShowSolution(true)
HintThreshold == 4

MaxPendingFetches == 1

\* the dates the App is looked at: any day outside December, and the
\* December days around the doors (the real date or simulateDate's)
DecemberDays == (FirstDoor - 1)..LastDoor

Dates ==
    {[december |-> FALSE, day |-> FirstDoor]}
        \cup {[december |-> TRUE, day |-> d] : d \in DecemberDays}

\* the hints and the image of the riddles generated here: riddle.hints is an
\* array of strings after lines 320-323, imageUrl is undefined where the
\* image generation failed and a data URL where it succeeded
RiddleVariants ==
    {[hints |-> <<"h1", "h2">>, imageUrl |-> "undefined"],
     [hints |-> <<"h1", "h2", "h3">>, imageUrl |-> "data:image"]}

\* what generateRiddleForDay(day) may resolve to, after lines 313-328
GeneratedRiddles(day) ==
    {[type |-> "choice", correctAnswer |-> <<"a">>, acceptedAnswers |-> Undefined,
      options |-> <<<<"a">>, <<"b">>>>, day |-> day, hints |-> v.hints,
      imageUrl |-> v.imageUrl] : v \in RiddleVariants}

\* canOpen without isDecember
canOpenAnyMonth(day) == day <= currentDate.day

\* DoorGrid lines 321-325: canOpen
canOpen(day) == currentDate.december /\ day <= currentDate.day

\* DoorGrid line 333: disabled={!canOpen && !state.isSolved}
doorEnabled(day) == canOpen(day) \/ calendarState[day].isSolved

\* the doors serialised as they are
keepImages(cs) == cs

\* the persist effect serialises every door with its riddle's imageUrl set to
\* undefined (lines 275-283); JSON.stringify leaves out the keys whose value
\* is undefined, which reads back as undefined again
stripImages(cs) ==
    [d \in Days |->
        IF cs[d].riddle # NoRiddle
        THEN [cs[d] EXCEPT !.riddle = [@ EXCEPT !.imageUrl = "undefined"]]
        ELSE cs[d]]

\* lines 270-298, run after every change of calendarState: the stored item
\* afterwards, ls being the item before
persist(cs, ls) ==
    IF \E d \in Days : cs[d].present
    THEN [item |-> TRUE, value |-> stripImages(cs)]
    ELSE ls

\* the hints RiddleModal lists (lines 194-205): riddle.hints.slice(0, hintClicks)
shownHints ==
    IF hintClicks > 0
    THEN SubSeq(riddle.hints, 1, Min(hintClicks, Len(riddle.hints)))
    ELSE <<>>

\* RiddleModal lines 78-85, and useState's initial values at a mount: the
\* modal's state starts over
modalStartsOver ==
    /\ userAnswer' = <<>>
    /\ hintClicks' = 0
    /\ showError' = FALSE
    /\ showSuccess' = FALSE
    /\ forceShowSolution' = FALSE
    /\ clicksSinceOpen' = 0
    /\ graded' = FALSE
    /\ submitted' = <<>>
    /\ isCorrect' = FALSE
    /\ fuzzyCalls' = <<>>

modalKept ==
    UNCHANGED <<userAnswer, hintClicks, showError, showSuccess, forceShowSolution,
                clicksSinceOpen, graded, submitted, isCorrect, fuzzyCalls>>

\* App renders no RiddleModal any more: its state is gone and its pending
\* setShowError(false) callbacks have nothing left to change
modalUnmounts ==
    /\ modalStartsOver
    /\ hideErrorTimers' = 0

\* App.tsx lines 247-268 with nothing stored yet, RiddleModal not rendered
Init ==
    /\ argA = <<>>
    /\ argB = <<>>
    /\ argC = <<>>
    /\ op = "none"
    /\ ret = "none"
    /\ riddle = NoRiddle
    /\ userAnswer = <<>>
    /\ showError = FALSE
    /\ showSuccess = FALSE
    /\ graded = FALSE
    /\ submitted = <<>>
    /\ isCorrect = FALSE
    /\ fuzzyCalls = <<>>
    /\ hideErrorTimers = 0
    /\ onSolvedTimer = {}
    /\ onSolvedCalls = 0
    /\ hintClicks = 0
    /\ forceShowSolution = FALSE
    /\ clicksSinceOpen = 0
    /\ currentDate \in Dates
    /\ calendarState = EmptyCalendar
    /\ selectedDay = NoDay
    /\ loadingRiddle = FALSE
    /\ pendingFetches = [d \in Days |-> 0]
    /\ closeTimers = {}
    /\ closedByTimer = NoClose
    /\ localStorage = [item |-> FALSE, value |-> EmptyCalendar]

\* the page behind the modal's overlay (fixed inset-0 z-50) can be clicked
PageReachable == ModalView \in {"unmounted", "nothing"}

\* a click on the door of day (DoorGrid line 332): App.tsx lines 300-312, up
\* to the await
handleOpenDoor(day) ==
    /\ PageReachable
    /\ doorEnabled(day)
    /\ selectedDay' = day
    /\ IF selectedDay # day THEN modalStartsOver ELSE modalKept
    /\ IF calendarState[day].riddle # NoRiddle
       THEN /\ riddle' = calendarState[day].riddle
            /\ UNCHANGED <<loadingRiddle, pendingFetches>>
       ELSE /\ pendingFetches[day] < MaxPendingFetches
            /\ loadingRiddle' = TRUE
            /\ riddle' = NoRiddle
            /\ pendingFetches' = [pendingFetches EXCEPT ![day] = @ + 1]
    /\ closedByTimer' = NoClose
    /\ UNCHANGED <<currentDate, calendarState, localStorage, closeTimers,
                   hideErrorTimers, onSolvedTimer, onSolvedCalls>>
    /\ UNCHANGED fnVars

\* lines 313-340 and 345-347: an awaited generateRiddleForDay(day) resolves
fetchSucceeds(day, r) ==
    /\ pendingFetches[day] > 0
    /\ pendingFetches' = [pendingFetches EXCEPT ![day] = @ - 1]
    /\ riddle' = r
    /\ calendarState' =
           [calendarState EXCEPT ![day] =
               [@ EXCEPT !.present = TRUE, !.isOpen = TRUE, !.riddle = r]]
    /\ localStorage' = persist(calendarState', localStorage)
    /\ loadingRiddle' = FALSE
    /\ modalKept
    /\ UNCHANGED <<currentDate, selectedDay, closeTimers, hideErrorTimers,
                   onSolvedTimer, onSolvedCalls>>
    /\ UNCHANGED closedByTimer
    /\ UNCHANGED fnVars

\* lines 341-347: an awaited generateRiddleForDay(day) rejects
fetchFails(day) ==
    /\ pendingFetches[day] > 0
    /\ pendingFetches' = [pendingFetches EXCEPT ![day] = @ - 1]
    /\ loadingRiddle' = FALSE
    /\ modalKept
    /\ UNCHANGED <<riddle, currentDate, calendarState, localStorage, selectedDay,
                   closeTimers, hideErrorTimers, onSolvedTimer, onSolvedCalls>>
    /\ UNCHANGED closedByTimer
    /\ UNCHANGED fnVars

\* lines 368-371, from the X of the modal's header (RiddleModal line 146)
handleCloseModal ==
    /\ ~PageReachable
    /\ selectedDay' = NoDay
    /\ riddle' = NoRiddle
    /\ modalUnmounts
    /\ UNCHANGED <<currentDate, calendarState, localStorage, loadingRiddle,
                   pendingFetches, closeTimers, onSolvedTimer, onSolvedCalls>>
    /\ UNCHANGED closedByTimer
    /\ UNCHANGED fnVars

\* handleHintClick revealing the solution one click later
handleHintClickLate ==
    /\ FormShown
    /\ ~forceShowSolution
    /\ LET newCount == hintClicks + 1
       IN  /\ hintClicks' = newCount
           /\ forceShowSolution' = (newCount > HintThreshold \/ forceShowSolution)
    /\ clicksSinceOpen' = clicksSinceOpen + 1
    /\ UNCHANGED <<riddle, userAnswer, showError, showSuccess, graded, submitted,
                   isCorrect, fuzzyCalls, hideErrorTimers, onSolvedTimer, onSolvedCalls,
                   currentDate, calendarState, selectedDay, loadingRiddle,
                   pendingFetches, closeTimers, localStorage>>
    /\ UNCHANGED closedByTimer
    /\ UNCHANGED fnVars

\* RiddleModal lines 87-95, from the hint button of the form (lines 267-282)
handleHintClick ==
    /\ FormShown
    /\ ~forceShowSolution
    /\ LET newCount == hintClicks + 1
       IN  /\ hintClicks' = newCount
           /\ forceShowSolution' = (newCount >= HintThreshold \/ forceShowSolution)
    /\ clicksSinceOpen' = clicksSinceOpen + 1
    /\ UNCHANGED <<riddle, userAnswer, showError, showSuccess, graded, submitted,
                   isCorrect, fuzzyCalls, hideErrorTimers, onSolvedTimer, onSolvedCalls,
                   currentDate, calendarState, selectedDay, loadingRiddle,
                   pendingFetches, closeTimers, localStorage>>
    /\ UNCHANGED closedByTimer
    /\ UNCHANGED fnVars

\* RiddleModal lines 117-119 inside App: a pending () => onSolved() runs the
\* handleRiddleSolved (lines 350-366) of the render it was set in, day being
\* that render's selectedDay
handleRiddleSolved(day) ==
    /\ day \in onSolvedTimer
    /\ day \notin closeTimers
    /\ onSolvedTimer' = onSolvedTimer \ {day}
    /\ calendarState' =
           [calendarState EXCEPT ![day] = [@ EXCEPT !.present = TRUE, !.isSolved = TRUE]]
    /\ localStorage' = persist(calendarState', localStorage)
    /\ closeTimers' = closeTimers \cup {day}
    /\ modalKept
    /\ UNCHANGED <<riddle, currentDate, selectedDay, loadingRiddle, pendingFetches,
                   hideErrorTimers, onSolvedCalls>>
    /\ UNCHANGED closedByTimer
    /\ UNCHANGED fnVars

\* lines 362-365: the close set by handleRiddleSolved(day) runs
closeTimeout(day) ==
    /\ day \in closeTimers
    /\ closeTimers' = closeTimers \ {day}
    /\ closedByTimer' = [timer |-> day, closed |-> selectedDay]
    /\ selectedDay' = NoDay
    /\ riddle' = NoRiddle
    /\ modalUnmounts
    /\ UNCHANGED <<currentDate, calendarState, localStorage, loadingRiddle,
                   pendingFetches, onSolvedTimer, onSolvedCalls>>
    /\ UNCHANGED fnVars

\* lines 374-379, from a button of the debug menu (line 423)
simulateDate(day) ==
    /\ PageReachable
    /\ currentDate' = [december |-> TRUE, day |-> day]
    /\ modalKept
    /\ UNCHANGED <<riddle, calendarState, localStorage, selectedDay, loadingRiddle,
                   pendingFetches, closeTimers, hideErrorTimers, onSolvedTimer,
                   onSolvedCalls>>
    /\ UNCHANGED closedByTimer
    /\ UNCHANGED fnVars

\* the page is loaded anew: lines 247-268 with the stored item, every pending
\* callback and fetch of the old page is gone
pageLoads(ls) ==
    /\ calendarState' = IF ls.item THEN ls.value ELSE EmptyCalendar
    /\ localStorage' = persist(calendarState', ls)
    /\ currentDate' \in Dates
    /\ selectedDay' = NoDay
    /\ riddle' = NoRiddle
    /\ loadingRiddle' = FALSE
    /\ pendingFetches' = [d \in Days |-> 0]
    /\ closeTimers' = {}
    /\ closedByTimer' = NoClose
    /\ onSolvedTimer' = {}
    /\ modalUnmounts
    /\ UNCHANGED onSolvedCalls
    /\ UNCHANGED fnVars

\* the user reloads the page
reloadPage == pageLoads(localStorage)

\* line 436: localStorage.removeItem(STORAGE_KEY); window.location.reload()
resetProgress ==
    /\ PageReachable
    /\ pageLoads([item |-> FALSE, value |-> EmptyCalendar])

Next ==
    \/ \E day \in Days : handleOpenDoor(day)
    \/ \E day \in Days : \E r \in GeneratedRiddles(day) : fetchSucceeds(day, r)
    \/ \E day \in Days : fetchFails(day)
    \/ handleCloseModal
    \/ handleHintClick
    \/ setUserAnswer
    \/ handleSubmit
    \/ hideErrorTimeout
    \/ \E day \in Days : handleRiddleSolved(day)
    \/ \E day \in Days : closeTimeout(day)
    \/ \E day \in DecemberDays : simulateDate(day)
    \/ reloadPage
    \/ resetProgress

Spec == Init /\ [][Next]_vars

(***************************************************************************)
(* Properties                                                              *)
(***************************************************************************)

\* the tolerance table of the specification
Tolerated(len, d) ==
    \/ len <= 3 /\ d = 0
    \/ 4 <= len /\ len <= 7 /\ d <= 1
    \/ len > 7 /\ d <= 2

\* C1: for a non-empty submission and candidate whose normalized forms differ,
\* isFuzzyMatch returns true exactly when the edit distance of the normalized
\* forms is within the tolerance of the tier of the longer one: 0 up to 3
\* characters, at most 1 for 4 to 7, at most 2 above 7.
C1_TieredTolerance ==
    (op = "isFuzzyMatch" /\ argA # <<>> /\ argB # <<>>
        /\ normalize(argA) # normalize(argB))
    => LET a == normalize(argA)
           b == normalize(argB)
       IN  ret = Tolerated(Max(Len(a), Len(b)), EditDistance(a, b))

C1_Witness ==
    /\ op = "isFuzzyMatch"
    /\ normalize(argA) # argA
    /\ Len(normalize(argA)) = 8
    /\ Len(normalize(argB)) = 7
    /\ EditDistance(normalize(argA), normalize(argB)) = 2
    /\ ret = TRUE

\* C2: isFuzzyMatch returns false whenever either input is empty, also when it
\* is empty only after normalization (whitespace or stripped punctuation only);
\* two inputs that are both empty after normalization do not match.
C2_EmptyNeverMatches ==
    (op = "isFuzzyMatch" /\ (normalize(argA) = <<>> \/ normalize(argB) = <<>>))
    => ret = FALSE

\* C3: getLevenshteinDistance(a, b) is the Levenshtein edit distance of a and b
\* (the recurrence with first row and column 0..len), for all strings, the
\* empty one included.
C3_IsEditDistance ==
    op = "getLevenshteinDistance" => ret = EditDistance(argA, argB)

C3_Witness ==
    /\ op = "getLevenshteinDistance"
    /\ Len(argA) = 8
    /\ Len(argB) = 6
    /\ ret = 3

\* C6: non-empty inputs whose normalized forms are identical match, whatever
\* their length tier; the distance of a normalized form to itself is 0, which
\* every tier tolerates.
C6_IdenticalNormalizedMatch ==
    (op = "isFuzzyMatch" /\ argA # <<>> /\ argB # <<>>
        /\ normalize(argA) = normalize(argB))
    => /\ ret = TRUE
       /\ getLevenshteinDistance(normalize(argA), normalize(argB)) = 0
       /\ withinTolerance(Len(normalize(argA)), 0)

C6_Witness ==
    /\ op = "isFuzzyMatch"
    /\ argA # argB
    /\ normalize(argA) = normalize(argB)
    /\ Len(normalize(argA)) = 8
    /\ \E i \in 1..Len(argA) : argA[i] \in UpperCase
    /\ \E i \in 1..Len(argB) : argB[i] \in Punctuation
    /\ ret = TRUE

\* C8: normalize is idempotent: normalizing a normalized string changes nothing.
C8_NormalizeIdempotent ==
    op = "normalize" => normalize(ret) = ret

\* the normalized form neither starts nor ends with whitespace
NoEdgeWhiteSpace ==
    op = "normalize" =>
        (ret = <<>> \/ (ret[1] \notin WhiteSpace /\ ret[Len(ret)] \notin WhiteSpace))

\* the normalized form has no uppercase and no stripped punctuation character
NoUpperNoPunctuation ==
    op = "normalize" =>
        \A i \in 1..Len(ret) : ret[i] \notin UpperCase /\ ret[i] \notin Punctuation

\* the normalized form is the input, lowercased, without its stripped
\* punctuation characters and without whitespace at its two ends
OthersKeptInOrder ==
    op = "normalize" =>
        \E i \in 1..(Len(argA) + 1) : \E j \in (i - 1)..Len(argA) :
            /\ \A k \in (1..(i - 1)) \cup ((j + 1)..Len(argA)) : argA[k] \in WhiteSpace
            /\ ret = SelectSeq(toLowerCase(SubSeq(argA, i, j)), IsNotPunctuation)

\* C9: the normalized form has no leading or trailing whitespace, no uppercase
\* character and no stripped punctuation character; all other characters of the
\* input are kept in order (lowercased), inner whitespace included.
C9_NormalizedForm ==
    NoEdgeWhiteSpace /\ NoUpperNoPunctuation /\ OthersKeptInOrder

\* C10: the edit distance is symmetric: getLevenshteinDistance(a, b) equals
\* getLevenshteinDistance(b, a), also when one or both strings are empty.
C10_Symmetric ==
    op = "getLevenshteinDistance" => ret = getLevenshteinDistance(argB, argA)

C10_Witness ==
    /\ op = "getLevenshteinDistance"
    /\ Len(argA) = 3
    /\ Len(argB) = 8
    /\ ret = 6

\* the substituted characters all are characters the answer does not contain
FreshSubstitutes ==
    \A i \in Differing(argA, argB) : argA[i] \notin Range(argB)

\* C7 as stated: one substitution in a 3-character answer is rejected, one in
\* a 4-character answer accepted, two in an 8-character answer accepted, and
\* three (at distinct positions, each to a different character) in an
\* 8-character answer rejected.
C7_TierBoundaries ==
    op = "isFuzzyMatch" =>
        LET n == Len(argB)
            k == Cardinality(Differing(argA, argB))
        IN  /\ (n = 3 /\ k = 1) => ret = FALSE
            /\ (n = 4 /\ k = 1) => ret = TRUE
            /\ (n = 8 /\ k = 2) => ret = TRUE
            /\ (n = 8 /\ k = 3) => ret = FALSE

\* C7 amended: as above, but three substitutions in an 8-character answer are
\* rejected exactly when the edit distance they leave is 3, which it is
\* whenever the substituted characters do not occur in the answer; three
\* substitutions that two edits achieve as well (a shift) are accepted.
C7_TierBoundariesAmended ==
    op = "isFuzzyMatch" =>
        LET n == Len(argB)
            k == Cardinality(Differing(argA, argB))
        IN  /\ (n = 3 /\ k = 1) => ret = FALSE
            /\ (n = 4 /\ k = 1) => ret = TRUE
            /\ (n = 8 /\ k = 2) => ret = TRUE
            /\ (n = 8 /\ k = 3) => ret = (EditDistance(argA, argB) <= 2)
            /\ (n = 8 /\ k = 3 /\ FreshSubstitutes) => ret = FALSE

C7_Witness ==
    /\ op = "isFuzzyMatch"
    /\ Len(argB) = 8
    /\ Cardinality(Differing(argA, argB)) = 3
    /\ FreshSubstitutes
    /\ Cardinality(Range(argB)) = 2
    /\ ret = FALSE

\* the alternates of a riddle; none when acceptedAnswers is absent, null or
\* not an array
Alternates(r) ==
    IF r.acceptedAnswers.kind = "array" THEN Range(r.acceptedAnswers.items) ELSE {}

\* C4: the verdict on a free-text riddle is true exactly when the submission
\* matches the canonical answer or at least one alternate, in whatever order
\* the alternates are listed; absent, null, non-array or empty alternates
\* count as none.
C4_TextVerdict ==
    (riddle.type = "text" /\ graded)
    => isCorrect = (\/ isFuzzyMatch(submitted, riddle.correctAnswer)
                    \/ \E alt \in Alternates(riddle) : isFuzzyMatch(submitted, alt))

C4_Witness ==
    /\ riddle.type = "text"
    /\ graded
    /\ isCorrect = TRUE
    /\ ~isFuzzyMatch(submitted, riddle.correctAnswer)
    /\ riddle.acceptedAnswers.kind = "array"
    /\ Len(riddle.acceptedAnswers.items) = 2
    /\ ~isFuzzyMatch(submitted, riddle.acceptedAnswers.items[1])
    /\ showSuccess

\* C5: the verdict on a choice riddle is true exactly when the submission is
\* identical to the canonical answer; no alternate is consulted and
\* isFuzzyMatch is not invoked.
C5_ChoiceVerdict ==
    (riddle.type = "choice" /\ graded)
    => /\ isCorrect = (submitted = riddle.correctAnswer)
       /\ fuzzyCalls = <<>>

C5_Witness ==
    /\ riddle.type = "choice"
    /\ graded
    /\ isCorrect = FALSE
    /\ submitted # riddle.correctAnswer
    /\ isFuzzyMatch(submitted, riddle.correctAnswer)
    /\ \E alt \in Alternates(riddle) : isFuzzyMatch(submitted, alt)
    /\ showError

\* C11: the edit distance satisfies the triangle inequality:
\* getLevenshteinDistance(a, c) <= getLevenshteinDistance(a, b) +
\* getLevenshteinDistance(b, c) for all strings a, b, c.
C11_Triangle ==
    op = "distances" => ret.ac <= ret.ab + ret.bc

\* a triple where the inequality is tight and no two strings are equal
C11_Witness ==
    /\ op = "distances"
    /\ ret.ab > 0
    /\ ret.bc > 0
    /\ ret.ac = ret.ab + ret.bc
    /\ Len(argA) = 3
    /\ Len(argB) = 2
    /\ Len(argC) = 3

(***************************************************************************)
(* The App                                                                 *)
(***************************************************************************)

\* a step in which the door of day d is opened: d becomes the selected day,
\* or a riddle is requested for d
DoorOpens(d) ==
    \/ selectedDay' = d /\ selectedDay # d
    \/ pendingFetches'[d] > pendingFetches[d]

\* C12: date gating: the door of day d is opened (d is selected, a riddle is
\* fetched or shown for d) only in a step that starts with the current,
\* possibly simulated, date in December with day of month >= d, or with door
\* d marked solved; a door of a future day that is not solved is never opened.
C12_DateGating ==
    [][\A d \in Days :
          DoorOpens(d) =>
              \/ currentDate.december /\ currentDate.day >= d
              \/ calendarState[d].isSolved]_vars

\* the solved door of a day that lies in the future of the simulated date is
\* open again and shows its riddle
C12_Witness ==
    \E d \in Days :
        /\ selectedDay = d
        /\ calendarState[d].isSolved
        /\ currentDate.december
        /\ currentDate.day < d
        /\ riddle # NoRiddle
        /\ riddle = calendarState[d].riddle

\* a step in which the riddle fetch of the open door d fails: d stays
\* selected, one awaited fetch for d ends, and no riddle arrives
FetchOfOpenDoorFails(d) ==
    /\ selectedDay = d
    /\ selectedDay' = d
    /\ pendingFetches'[d] < pendingFetches[d]
    /\ riddle' = NoRiddle

\* C13: when generating the riddle for the opened door fails, the App is in
\* the state (day selected, riddle = null, loading = false) afterwards, the
\* calendar state is unchanged, and the riddle modal is displayed with its
\* error message.
C13_FailureIsShown ==
    [][\A d \in Days :
          FetchOfOpenDoorFails(d) =>
              /\ ~loadingRiddle'
              /\ calendarState' = calendarState
              /\ ModalView' = "error"]_vars

\* the hint state of the modal: the counter is the number of hint clicks since
\* the modal was opened for its day, the solution is revealed exactly from
\* the fourth click on, a revealed solution replaces the answer form, and
\* where the riddle is laid out the hints listed are the first
\* min(clicks, number of hints) of the riddle
HintState ==
    /\ hintClicks = clicksSinceOpen
    /\ forceShowSolution <=> clicksSinceOpen >= HintThreshold
    /\ forceShowSolution => ~FormShown
    /\ ModalView \in {"form", "solution"} =>
           /\ Len(shownHints) = Min(clicksSinceOpen, Len(riddle.hints))
           /\ \A i \in 1..Len(shownHints) : shownHints[i] = riddle.hints[i]

\* a step in which an answer is submitted
Submits ==
    \/ hideErrorTimers' > hideErrorTimers
    \/ showSuccess' /\ ~showSuccess

\* C14: hint progression within one opening of the modal for a day: the
\* counter starts at 0 and counts the hint clicks, after k clicks exactly the
\* first min(k, number of hints) hints are shown, the solution is revealed if
\* and only if the hint button was clicked at least 4 times since the modal
\* was opened for that day, and while the solution stays revealed the form is
\* not offered: no step submits an answer or counts a hint click.
C14_HintProgression ==
    [][/\ HintState'
       /\ forceShowSolution /\ forceShowSolution' =>
              hintClicks' = hintClicks /\ ~Submits]_vars

\* the solution is revealed by the fourth click on a riddle with two hints,
\* both of which are listed
C14_Witness ==
    /\ ModalView = "solution"
    /\ clicksSinceOpen = HintThreshold
    /\ Len(riddle.hints) = 2
    /\ shownHints = riddle.hints

\* the calendar state has a door: Object.keys(calendarState).length > 0
HasProgress == \E d \in Days : calendarState[d].present

\* the stored door s is the door c with the imageUrl of its riddle removed
StoredAs(s, c) ==
    /\ s.present = c.present
    /\ s.isOpen = c.isOpen
    /\ s.isSolved = c.isSolved
    /\ (s.riddle = NoRiddle) = (c.riddle = NoRiddle)
    /\ c.riddle # NoRiddle =>
           /\ s.riddle.day = c.riddle.day
           /\ s.riddle.type = c.riddle.type
           /\ s.riddle.options = c.riddle.options
           /\ s.riddle.correctAnswer = c.riddle.correctAnswer
           /\ s.riddle.acceptedAnswers = c.riddle.acceptedAnswers
           /\ s.riddle.hints = c.riddle.hints
           /\ s.riddle.imageUrl = "undefined"

C16_RiddleOfSelectedDay ==
    \A d \in Days :
        selectedDay = d =>
            /\ ModalView \in {"form", "solution", "success"} => riddle.day = d
            /\ ~loadingRiddle => pendingFetches[d] = 0

\* C17: the delayed effects of a correct submission only affect the day that
\* was answered: a day is marked solved only by the onSolved set while that
\* day was selected, and the delayed close of a day never closes the modal of
\* a different door that was opened in the meantime.
C17_DelayedEffectsOwnDay ==
    [][/\ \A d \in Days :
              calendarState'[d].isSolved /\ ~calendarState[d].isSolved =>
                  d \in onSolvedTimer
       /\ closedByTimer'.closed \in {NoDay, closedByTimer'.timer}]_vars

====
